---- MODULE Spec2Model ----
(***************************************************************************)
(* Nunjucks Toolbox: the template analyzer (NunjucksAnalyzer.analyze) and  *)
(* the indentation formatter (NunjucksFormatter.format) of                 *)
(* Commands/nunjucks_core.py, and the two editor commands that carry their *)
(* own copies of them: format_template of Commands/nunjucks_format.py and  *)
(* lint_template of Commands/nunjucks_lint.py.                             *)
(*                                                                         *)
(* A text is a sequence of lexical tokens: the six delimiters, the line    *)
(* break, blanks, punctuation and words.  A word token is a maximal run of *)
(* \w characters; the documents drawn below never put two word tokens side *)
(* by side, so a regular expression of the source matches a text exactly   *)
(* when its token-level reading below matches the token sequence.          *)
(***************************************************************************)
EXTENDS Integers, Sequences, FiniteSets, TLC

\* ------------------------------------------------------------------ bounds
\* Longest document drawn for the analyzer, in lines.
MaxLines == 4
\* Longest document drawn for the bracket pre-check, in lines.
MaxBracketLines == 3
\* Longest document drawn for the formatter, in lines.
MaxFormatLines == 3
\* Longest document drawn for warnings and notices, in lines.
MaxNoticeLines == 4
\* Number of format calls made in a row, each on the output of the one before.
MaxCalls == 2

\* ------------------------------------------------------------------ tokens
NL == "\n"
WS == {" ", "\t"}

\* The line boundaries of str.splitlines() that the texts drawn here hold:
\* the line feed, and carriage return plus line feed as one token.
CRLF == "\r\n"
LineBreaks == {NL, CRLF}

\* The tokens that contain the character '}'.
HasCloseBrace == {"}}", "%}", "#}"}

\* Tokens made of \w characters only.
WordTokens ==
  {"if", "endif", "for", "endfor", "block", "endblock", "macro", "endmacro",
   "call", "endcall", "filter", "endfilter", "with", "endwith", "without",
   "endwithout", "autoescape", "endautoescape", "raw", "endraw", "verbatim",
   "endverbatim", "asynceach", "endasynceach", "asyncall", "endasyncall",
   "while", "endwhile", "else", "elif", "elseif", "extends", "include",
   "x", "y", "i", "in", "name", "user", "request", "params", "query",
   "input", "form", "escape", "e", "safe", "upper", "body", "text"}

IsWord(t) == t \in WordTokens

\* Python's None.
None == "None"

\* ------------------------------------------------------------ sequence help
Max(a, b) == IF a >= b THEN a ELSE b

SeqRange(s) == {s[i] : i \in 1..Len(s)}

\* First index >= i of s that holds no blank (Len(s)+1 when there is none):
\* where the text stands after a greedy \s* that started at i.
RECURSIVE SkipWs(_, _)
SkipWs(s, i) ==
  IF i <= Len(s) /\ s[i] \in WS THEN SkipWs(s, i + 1) ELSE i

\* s[i] when i is an index of s, else a token that matches nothing.
At(s, i) == IF i >= 1 /\ i <= Len(s) THEN s[i] ELSE "<eol>"

\* str.strip() of a line: blanks removed at both ends.
RECURSIVE LStrip(_)
LStrip(s) == IF s # <<>> /\ Head(s) \in WS THEN LStrip(Tail(s)) ELSE s

RECURSIVE RStrip(_)
RStrip(s) ==
  IF s # <<>> /\ s[Len(s)] \in WS THEN RStrip(SubSeq(s, 1, Len(s) - 1)) ELSE s

Strip(s) == RStrip(LStrip(s))

\* Number of tokens of s equal to t: len(pattern.findall(content)) for a
\* pattern that is one delimiter.
RECURSIVE Count(_, _)
Count(s, t) ==
  IF s = <<>> THEN 0
  ELSE (IF Head(s) = t THEN 1 ELSE 0) + Count(Tail(s), t)

\* str.splitlines(): the pieces between line breaks; a final line break
\* opens no further (empty) line, and the empty text has no line at all.
RECURSIVE SplitFrom(_, _)
SplitFrom(s, cur) ==
  IF s = <<>> THEN (IF cur = <<>> THEN <<>> ELSE <<cur>>)
  ELSE IF Head(s) \in LineBreaks THEN <<cur>> \o SplitFrom(Tail(s), <<>>)
  ELSE SplitFrom(Tail(s), Append(cur, Head(s)))

Splitlines(s) == SplitFrom(s, <<>>)

\* '\n'.join(lines)
RECURSIVE JoinLines(_)
JoinLines(ls) ==
  IF ls = <<>> THEN <<>>
  ELSE IF Len(ls) = 1 THEN ls[1]
  ELSE ls[1] \o <<NL>> \o JoinLines(Tail(ls))

\* ------------------------------------------------------- NunjucksPatterns
\* A registry that lists for before if.
BLOCKSForFirst ==
  <<"for", "if", "block", "macro", "call", "filter", "with", "without",
    "autoescape", "raw", "verbatim", "asynceach", "asyncall", "while">>

\* The keys of BLOCKS in insertion order, the order in which _check_blocks
\* visits them.
BLOCKS ==
  <<"if", "for", "block", "macro", "call", "filter", "with", "without",
    "autoescape", "raw", "verbatim", "asynceach", "asyncall", "while">>

\* f'end{block_name}'
EndTag(name) ==
  CASE name = "if" -> "endif"
    [] name = "for" -> "endfor"
    [] name = "block" -> "endblock"
    [] name = "macro" -> "endmacro"
    [] name = "call" -> "endcall"
    [] name = "filter" -> "endfilter"
    [] name = "with" -> "endwith"
    [] name = "without" -> "endwithout"
    [] name = "autoescape" -> "endautoescape"
    [] name = "raw" -> "endraw"
    [] name = "verbatim" -> "endverbatim"
    [] name = "asynceach" -> "endasynceach"
    [] name = "asyncall" -> "endasyncall"
    [] name = "while" -> "endwhile"

\* re.search(r'\{%\s*' + w + r'\s+', s)
TagThenSpace(s, w) ==
  \E i \in 1..Len(s) :
    /\ s[i] = "{%"
    /\ LET j == SkipWs(s, i + 1) IN At(s, j) = w /\ At(s, j + 1) \in WS

\* re.search(r'\{%\s*' + w + r'\s*%\}', s)
TagThenClose(s, w) ==
  \E i \in 1..Len(s) :
    /\ s[i] = "{%"
    /\ LET j == SkipWs(s, i + 1) IN
         At(s, j) = w /\ At(s, SkipWs(s, j + 1)) = "%}"

\* re.search(r'\{%\s*' + w + r'(?:\s|%)', s)
TagThenSpaceOrPercent(s, w) ==
  \E i \in 1..Len(s) :
    /\ s[i] = "{%"
    /\ LET j == SkipWs(s, i + 1) IN
         At(s, j) = w /\ (At(s, j + 1) \in WS \/ At(s, j + 1) = "%}")

\* re.search(r'\{%\s*endblock\s*(?:\s+\w+)?\s*%\}', s)
EndblockPattern(s) ==
  \E i \in 1..Len(s) :
    /\ s[i] = "{%"
    /\ LET j == SkipWs(s, i + 1)
           k == SkipWs(s, j + 1)
       IN  /\ At(s, j) = "endblock"
           /\ \/ At(s, k) = "%}"
              \/ /\ k > j + 1
                 /\ IsWord(At(s, k))
                 /\ At(s, SkipWs(s, k + 1)) = "%}"

\* BLOCKS[name][0].search(line)
OpenPattern(name, line) ==
  IF name \in {"raw", "verbatim"} THEN TagThenClose(line, name)
  ELSE TagThenSpace(line, name)

\* A closing pattern that lets a name follow every end tag.
ClosePatternAnyName(name, line) ==
  IF name = "block" THEN EndblockPattern(line)
  ELSE TagThenSpaceOrPercent(line, EndTag(name))

\* BLOCKS[name][1].search(line)
ClosePattern(name, line) ==
  IF name = "block" THEN EndblockPattern(line)
  ELSE TagThenClose(line, EndTag(name))

\* ELSE_ELIF.search(line)
ELSE_ELIF(line) ==
  \E w \in {"else", "elif", "elseif"} : TagThenSpaceOrPercent(line, w)

\* re.search(r'\{%\s*endif\s+\w+', line)
NamedEndif(line) ==
  \E i \in 1..Len(line) :
    /\ line[i] = "{%"
    /\ LET j == SkipWs(line, i + 1) IN
         /\ At(line, j) = "endif"
         /\ At(line, j + 1) \in WS
         /\ IsWord(At(line, SkipWs(line, j + 1)))

\* re.search(r'\{%\s*block\s+(\w+)', line): the set holding group(1) of the
\* leftmost match, empty when there is no match.
RECURSIVE BlockNameFrom(_, _)
BlockNameFrom(line, i) ==
  IF i > Len(line) THEN {}
  ELSE LET j == SkipWs(line, i + 1)
           k == SkipWs(line, j + 1)
       IN  IF /\ line[i] = "{%"
              /\ At(line, j) = "block"
              /\ k > j + 1
              /\ IsWord(At(line, k))
           THEN {line[k]}
           ELSE BlockNameFrom(line, i + 1)

BlockName(line) == BlockNameFrom(line, 1)

\* BRACKETS: (bracket_type, opening delimiter, closing delimiter)
BRACKETS ==
  << <<"variable", "{{", "}}">>, <<"tag", "{%", "%}">>,
     <<"comment", "{#", "#}">> >>

\* SECURITY['script_context']: <script[^>]*>, one token of the text.
ScriptContext(line) == \E i \in 1..Len(line) : line[i] = "<script>"

\* SECURITY['unescaped_var']: \{\{\s*\w+\s*\}\}
UnescapedVar(line) ==
  \E i \in 1..Len(line) :
    /\ line[i] = "{{"
    /\ LET j == SkipWs(line, i + 1) IN
         IsWord(At(line, j)) /\ At(line, SkipWs(line, j + 1)) = "}}"

\* SECURITY['escape_filter']: \|\s*(?:escape|e|safe)\b
EscapeFilter(line) ==
  \E i \in 1..Len(line) :
    /\ line[i] = "|"
    /\ At(line, SkipWs(line, i + 1)) \in {"escape", "e", "safe"}

\* Words with the substring 'input' or 'form' (\w*input\w*|\w*form\w*).
InputFormWords == {"input", "form"}

\* SECURITY['user_input']
UserInput(line) ==
  \E i \in 1..Len(line) :
    /\ line[i] = "{{"
    /\ LET j == SkipWs(line, i + 1) IN
         \/ /\ At(line, j) \in {"user", "request", "params", "query"}
            /\ At(line, j + 1) = "."
         \/ At(line, j) \in InputFormWords

\* re.search(r'\{%\s*' + w + r'\s+["\']([^"\']+)["\']', line): the set
\* holding group(1) of the leftmost match.  A quoted path is three tokens:
\* a quote, the path, a quote.
RECURSIVE QuotedArgFrom(_, _, _)
QuotedArgFrom(line, w, i) ==
  IF i > Len(line) THEN {}
  ELSE LET j == SkipWs(line, i + 1)
           k == SkipWs(line, j + 1)
       IN  IF /\ line[i] = "{%"
              /\ At(line, j) = w
              /\ k > j + 1
              /\ At(line, k) = "'"
              /\ k + 2 <= Len(line)
              /\ line[k + 1] # "'"
              /\ line[k + 2] = "'"
           THEN {line[k + 1]}
           ELSE QuotedArgFrom(line, w, i + 1)

QuotedArg(line, w) == QuotedArgFrom(line, w, 1)

\* patterns.VARIABLE.finditer(line): group(1) of the successive non-overlapping
\* matches of \{\{\s*([^}]+)\s*\}\}
RECURSIVE FirstCloseBrace(_, _)
FirstCloseBrace(s, i) ==
  IF i <= Len(s) /\ s[i] \notin HasCloseBrace THEN FirstCloseBrace(s, i + 1)
  ELSE i

RECURSIVE VariableFrom(_, _)
VariableFrom(line, i) ==
  IF i > Len(line) THEN <<>>
  ELSE LET j == FirstCloseBrace(line, i + 1) IN
       IF line[i] = "{{" /\ At(line, j) = "}}" /\ j >= i + 2
       THEN <<SubSeq(line, i + 1, j - 1)>> \o VariableFrom(line, j + 1)
       ELSE VariableFrom(line, i + 1)

VariableMatches(line) == VariableFrom(line, 1)

\* s.split(sep)[0]
RECURSIVE SplitHead(_, _)
SplitHead(s, sep) ==
  IF s = <<>> \/ Head(s) = sep THEN <<>>
  ELSE <<Head(s)>> \o SplitHead(Tail(s), sep)

\* patterns.FILTER.finditer(s): the names after a '|'
FilterNames(s) ==
  {At(s, SkipWs(s, i + 1)) : i \in {n \in 1..Len(s) : s[n] = "|" /\
                                      IsWord(At(s, SkipWs(s, n + 1)))}}

\* -------------------------------------------------------- NunjucksAnalyzer
VARIABLES
  content,         \* the text handed to analyze or format
  lines,           \* content.splitlines()
  pc,              \* the position of the running call
  line_num,        \* 1-based number of the line being processed
  kind_idx,        \* how far _check_blocks is through BLOCKS on this line
  tag_stack,       \* self.tag_stack: <<name, line>> entries, top last
  issues,          \* self.issues
  stats,           \* self.stats
  result,          \* what analyze returned
  indent_char,     \* NunjucksFormatter.indent_char
  indent_level,    \* format: indent_level
  formatted_lines, \* format: formatted_lines
  output,          \* what the running or last format call returned
  first_output,    \* what the format call before it returned
  calls,           \* number of calls that have returned
  config,          \* <<tab_size, use_tabs>> given to NunjucksFormatter
  shared           \* the lists of the returned dictionary are still
                   \* self.issues and self.stats

vars ==
  <<content, lines, pc, line_num, kind_idx, tag_stack, issues, stats, result,
    indent_char, indent_level, formatted_lines, output, first_output,
    calls, config, shared>>

analyzerVars ==
  <<content, lines, pc, line_num, kind_idx, tag_stack, issues, stats, result>>

formatterVars ==
  <<indent_char, indent_level, formatted_lines, output, first_output,
    calls, config>>

NunjucksIssue(line, severity, message, issue_type) ==
  [line |-> line, severity |-> severity, message |-> message,
   issue_type |-> issue_type]

\* _reset: the statistics of a fresh run
EmptyStats ==
  [blocks_defined |-> {}, blocks_used |-> {}, variables_used |-> {},
   filters_used |-> {}, extends_template |-> None, includes |-> {}]

\* A bracket check that reports a family only when it has more opening than
\* closing delimiters.
RECURSIVE BracketIssuesExcessOpenFrom(_, _)
BracketIssuesExcessOpenFrom(text, b) ==
  IF b > Len(BRACKETS) THEN <<>>
  ELSE LET open_count == Count(text, BRACKETS[b][2])
           close_count == Count(text, BRACKETS[b][3])
       IN  (IF open_count > close_count
            THEN <<NunjucksIssue(0, "error",
                     <<"Unmatched ", BRACKETS[b][1], " brackets: ",
                       open_count, " open, ", close_count, " close">>,
                     "bracket_mismatch")>>
            ELSE <<>>) \o BracketIssuesExcessOpenFrom(text, b + 1)

CheckBracketsExcessOpen(text) == BracketIssuesExcessOpenFrom(text, 1)

\* _check_brackets: one issue per family whose counts differ
RECURSIVE BracketIssuesFrom(_, _)
BracketIssuesFrom(text, b) ==
  IF b > Len(BRACKETS) THEN <<>>
  ELSE LET open_count == Count(text, BRACKETS[b][2])
           close_count == Count(text, BRACKETS[b][3])
       IN  (IF open_count # close_count
            THEN <<NunjucksIssue(0, "error",
                     <<"Unmatched ", BRACKETS[b][1], " brackets: ",
                       open_count, " open, ", close_count, " close">>,
                     "bracket_mismatch")>>
            ELSE <<>>) \o BracketIssuesFrom(text, b + 1)

CheckBrackets(text) == BracketIssuesFrom(text, 1)

\* A closing branch that pops the top entry whatever its kind.
CloseTagPopsAnyway(stack, iss, name, ln) ==
  IF stack # <<>> /\ stack[Len(stack)][1] = name
  THEN [tag_stack |-> SubSeq(stack, 1, Len(stack) - 1), issues |-> iss]
  ELSE [tag_stack |-> SubSeq(stack, 1, Len(stack) - 1),
        issues |-> Append(iss, NunjucksIssue(ln, "error",
                     <<"Unmatched closing tag: ", EndTag(name)>>,
                     "block_mismatch"))]

\* A closing branch that leaves the issue type to its default, 'syntax'.
CloseTagDefaultType(stack, iss, name, ln) ==
  IF stack # <<>> /\ stack[Len(stack)][1] = name
  THEN [tag_stack |-> SubSeq(stack, 1, Len(stack) - 1), issues |-> iss]
  ELSE [tag_stack |-> stack,
        issues |-> Append(iss, NunjucksIssue(ln, "error",
                     <<"Unmatched closing tag: ", EndTag(name)>>,
                     "syntax"))]

\* _check_blocks, the closing branch for one kind: pop the top entry when it
\* is of this kind, else report and leave the stack alone
CloseTag(stack, iss, name, ln) ==
  IF stack # <<>> /\ stack[Len(stack)][1] = name
  THEN [tag_stack |-> SubSeq(stack, 1, Len(stack) - 1), issues |-> iss]
  ELSE [tag_stack |-> stack,
        issues |-> Append(iss, NunjucksIssue(ln, "error",
                     <<"Unmatched closing tag: ", EndTag(name)>>,
                     "block_mismatch"))]

\* _check_blocks, the body of the loop for one kind
CheckBlock(stack, iss, st, name, line, ln) ==
  IF OpenPattern(name, line)
  THEN [tag_stack |-> Append(stack, <<name, ln>>),
        issues |-> iss,
        stats |-> IF name = "block"
                  THEN [st EXCEPT !.blocks_defined = @ \cup BlockName(line)]
                  ELSE st]
  ELSE IF ClosePattern(name, line)
  THEN [tag_stack |-> CloseTag(stack, iss, name, ln).tag_stack,
        issues |-> CloseTag(stack, iss, name, ln).issues,
        stats |-> st]
  ELSE [tag_stack |-> stack, issues |-> iss, stats |-> st]

\* An else/elif check that accepts an if block only.
ElseElifIssuesIfOnly(line, ln, stack) ==
  IF ELSE_ELIF(line) /\
     (stack = <<>> \/ stack[Len(stack)][1] \notin {"if"})
  THEN <<NunjucksIssue(ln, "error",
           <<"else/elif outside of if/for block">>, "syntax")>>
  ELSE <<>>

\* _check_blocks, else/elif placement
ElseElifIssues(line, ln, stack) ==
  IF ELSE_ELIF(line) /\
     (stack = <<>> \/ stack[Len(stack)][1] \notin {"if", "for"})
  THEN <<NunjucksIssue(ln, "error",
           <<"else/elif outside of if/for block">>, "syntax")>>
  ELSE <<>>

\* _check_blocks, deprecated syntax
DeprecatedIssues(line, ln) ==
  IF NamedEndif(line)
  THEN <<NunjucksIssue(ln, "warning",
           <<"Named endif is deprecated. Use {% endif %}.">>, "deprecated")>>
  ELSE <<>>

\* _extract_variables
BaseVar(var_content) == Strip(SplitHead(SplitHead(var_content, "|"), "."))

ExtractVariables(st, line) ==
  LET ms == VariableMatches(line)
      cs == {Strip(ms[i]) : i \in 1..Len(ms)}
  IN  [st EXCEPT
         !.variables_used = @ \cup ({BaseVar(c) : c \in cs} \ {<<>>}),
         !.filters_used = @ \cup UNION {FilterNames(c) : c \in cs}]

\* A security check that warns of user input whatever filters the line has.
SecurityIssuesUnfiltered(line, ln) ==
  (IF ScriptContext(line) /\ UnescapedVar(line) /\ ~EscapeFilter(line)
   THEN <<NunjucksIssue(ln, "warning",
            <<"Unescaped variable in JavaScript context. Use |tojson filter.">>,
            "security")>>
   ELSE <<>>)
  \o
  (IF UserInput(line)
   THEN <<NunjucksIssue(ln, "warning",
            <<"User input should be escaped for security">>, "security")>>
   ELSE <<>>)

\* A security check that warns in a script context of any expression.
SecurityIssuesAnyExpression(line, ln) ==
  (IF ScriptContext(line) /\ ~EscapeFilter(line)
   THEN <<NunjucksIssue(ln, "warning",
            <<"Unescaped variable in JavaScript context. Use |tojson filter.">>,
            "security")>>
   ELSE <<>>)
  \o
  (IF UserInput(line) /\ ~EscapeFilter(line)
   THEN <<NunjucksIssue(ln, "warning",
            <<"User input should be escaped for security">>, "security")>>
   ELSE <<>>)

\* _check_security
SecurityIssues(line, ln) ==
  (IF ScriptContext(line) /\ UnescapedVar(line) /\ ~EscapeFilter(line)
   THEN <<NunjucksIssue(ln, "warning",
            <<"Unescaped variable in JavaScript context. Use |tojson filter.">>,
            "security")>>
   ELSE <<>>)
  \o
  (IF UserInput(line) /\ ~EscapeFilter(line)
   THEN <<NunjucksIssue(ln, "warning",
            <<"User input should be escaped for security">>, "security")>>
   ELSE <<>>)

\* _check_inheritance
CheckInheritance(st, line) ==
  LET e == QuotedArg(line, "extends")
      n == QuotedArg(line, "include")
  IN  [st EXCEPT
         !.extends_template = IF e # {} THEN CHOOSE x \in e : TRUE ELSE @,
         !.includes = @ \cup n]

\* An end-of-document check that reports the innermost open block only.
UnclosedIssuesTopOnly(stack) ==
  IF stack = <<>> THEN <<>>
  ELSE <<NunjucksIssue(stack[Len(stack)][2], "error",
           <<"Unclosed ", stack[Len(stack)][1], " tag">>, "unclosed_tag")>>

\* An end-of-document check that reports the open blocks from the top down.
RECURSIVE UnclosedIssuesTopFirst(_)
UnclosedIssuesTopFirst(stack) ==
  IF stack = <<>> THEN <<>>
  ELSE <<NunjucksIssue(stack[Len(stack)][2], "error",
           <<"Unclosed ", stack[Len(stack)][1], " tag">>, "unclosed_tag")>>
       \o UnclosedIssuesTopFirst(SubSeq(stack, 1, Len(stack) - 1))

\* _check_unclosed_tags
RECURSIVE UnclosedIssues(_)
UnclosedIssues(stack) ==
  IF stack = <<>> THEN <<>>
  ELSE <<NunjucksIssue(Head(stack)[2], "error",
           <<"Unclosed ", Head(stack)[1], " tag">>, "unclosed_tag")>>
       \o UnclosedIssues(Tail(stack))

\* A structure check that joins its two conditions with 'or'.
TemplateStructureIssuesOr(st) ==
  IF st.blocks_defined # {} \/ st.extends_template = None
  THEN <<NunjucksIssue(0, "info",
           <<"Template defines blocks but doesn't extend a base template">>,
           "template_structure")>>
  ELSE <<>>

\* A structure check that does not look at extends_template.
TemplateStructureIssuesAnyBlock(st) ==
  IF st.blocks_defined # {}
  THEN <<NunjucksIssue(0, "info",
           <<"Template defines blocks but doesn't extend a base template">>,
           "template_structure")>>
  ELSE <<>>

\* _check_template_structure
TemplateStructureIssues(st) ==
  IF st.blocks_defined # {} /\ st.extends_template = None
  THEN <<NunjucksIssue(0, "info",
           <<"Template defines blocks but doesn't extend a base template">>,
           "template_structure")>>
  ELSE <<>>

\* A validity that any issue at all denies.
IsValidNoIssues(iss) == iss = <<>>

\* not any(issue.severity == 'error' for issue in self.issues)
IsValid(iss) == ~ \E i \in 1..Len(iss) : iss[i].severity = "error"

\* ------------------------------------------------------- NunjucksFormatter
indent_tags ==
  {"if", "for", "block", "macro", "call", "filter", "with", "without",
   "autoescape", "raw", "verbatim", "asynceach", "asyncall", "while"}

dedent_tags ==
  {"endif", "endfor", "endblock", "endmacro", "endcall", "endfilter",
   "endwith", "endwithout", "endautoescape", "endraw", "endverbatim",
   "endasynceach", "endasyncall", "endwhile"}

temp_dedent_tags == {"else", "elif", "elseif"}

\* s * n for a Python sequence: empty when n <= 0
RECURSIVE Repeat(_, _)
Repeat(s, n) == IF n <= 0 THEN <<>> ELSE s \o Repeat(s, n - 1)

\* __init__: '\t' if use_tabs else ' ' * tab_size
IndentChar(tab_size, use_tabs) ==
  IF use_tabs THEN <<"\t">> ELSE Repeat(<<" ">>, tab_size)

TempDedent(stripped) ==
  \E tag \in temp_dedent_tags : TagThenSpaceOrPercent(stripped, tag)

PermDedent(stripped) ==
  \E tag \in dedent_tags : TagThenClose(stripped, tag)

IndentOpen(stripped) ==
  \E tag \in indent_tags : TagThenSpace(stripped, tag)

\* max(0, indent_level - (1 if temp_dedent or perm_dedent else 0))
CurrentIndent(level, stripped) ==
  Max(0, level - (IF TempDedent(stripped) \/ PermDedent(stripped)
                  THEN 1 ELSE 0))

\* A rendering that indents blank lines like any other line.
FormattedLineIndentsBlank(unit, level, line) ==
  Repeat(unit, CurrentIndent(level, Strip(line))) \o Strip(line)

\* A rendering that trims the end of the line only.
FormattedLineKeepsLeading(unit, level, line) ==
  IF Strip(line) = <<>> THEN <<>>
  ELSE Repeat(unit, CurrentIndent(level, Strip(line))) \o RStrip(line)

\* the line as appended to formatted_lines
FormattedLine(unit, level, line) ==
  IF Strip(line) = <<>> THEN <<>>
  ELSE Repeat(unit, CurrentIndent(level, Strip(line))) \o Strip(line)

\* An indent_level that an else tag lowers like a closing tag.
NextIndentLevelElseCloses(level, line) ==
  IF Strip(line) = <<>> THEN level
  ELSE IF PermDedent(Strip(line)) \/ TempDedent(Strip(line))
  THEN Max(0, level - 1)
  ELSE IF IndentOpen(Strip(line)) THEN level + 1
  ELSE level

\* An indent_level that a closing tag lowers without a floor.
NextIndentLevelNoFloor(level, line) ==
  IF Strip(line) = <<>> THEN level
  ELSE IF PermDedent(Strip(line)) THEN level - 1
  ELSE IF IndentOpen(Strip(line)) THEN level + 1
  ELSE level

\* indent_level after the line
NextIndentLevel(level, line) ==
  IF Strip(line) = <<>> THEN level
  ELSE IF PermDedent(Strip(line)) THEN Max(0, level - 1)
  ELSE IF IndentOpen(Strip(line)) THEN level + 1
  ELSE level

\* ---------------------------------------------------------------- inputs
Tag1(w) == <<"{%", " ", w, " ", "%}">>
Tag2(w, a) == <<"{%", " ", w, " ", a, " ", "%}">>
Var1(w) == <<"{{", " ", w, " ", "}}">>

IfLine == Tag2("if", "x")
EndifLine == Tag1("endif")
ForLine == <<"{%", " ", "for", " ", "i", " ", "in", " ", "x", " ", "%}">>
EndforLine == Tag1("endfor")
ElseLine == Tag1("else")
BodyLine == Var1("i")
OneLineIf == Tag2("if", "x") \o <<"text">> \o Tag1("endif")
BlockLine == Tag2("block", "body")
EndblockLine == Tag1("endblock")

\* Lines of the documents drawn for the block checks.
BlockLines ==
  {IfLine, EndifLine, ForLine, EndforLine, ElseLine, BodyLine, OneLineIf,
   BlockLine, EndblockLine}

\* Lines of the documents drawn for the bracket pre-check.
BracketLines ==
  {<<"{{", " ", "x">>, <<"x", " ", "}}">>, <<"{%", " ", "if", " ", "x">>,
   <<"x", " ", "%}">>, <<"{#", " ", "x">>, <<"x", " ", "#}">>,
   Var1("x"), <<"text">>}

\* Lines of the documents drawn for warnings and notices.
NoticeLines ==
  {Tag2("endif", "name"),
   <<"{{", " ", "user", ".", "name", " ", "}}">>,
   <<"{{", " ", "user", ".", "name", " ", "|", " ", "escape", " ", "}}">>,
   <<"<script>">> \o Var1("x"),
   BlockLine, EndblockLine,
   <<"{%", " ", "extends", " ", "'", "base.html", "'", " ", "%}">>,
   EndifLine}

\* Lines of the documents drawn for the formatter.
FormatLines ==
  {IfLine, EndifLine, ElseLine, <<"text">>, <<" ", " ", "text">>, <<>>,
   <<" ">>, OneLineIf}

\* Formatter configurations drawn: (tab_size, use_tabs).
FormatConfigs == {<<2, FALSE>>, <<2, TRUE>>}

\* The texts of at most n lines over a set of lines, joined by line breaks.
Documents(ls, n) ==
  {JoinLines(d) : d \in UNION {[1..m -> ls] : m \in 0..n}}

\* ------------------------------------------------------------ state machine
IdleFormatter ==
  /\ config = <<2, FALSE>>
  /\ indent_char = <<>>
  /\ indent_level = 0
  /\ formatted_lines = <<>>
  /\ output = <<>>
  /\ first_output = <<>>
  /\ calls = 0

\* NunjucksAnalyzer.__init__, and a text about to be analyzed
InitAnalyze(docs) ==
  /\ content \in docs
  /\ lines = <<>>
  /\ pc = "analyze"
  /\ line_num = 0
  /\ kind_idx = 1
  /\ tag_stack = <<>>
  /\ issues = <<>>
  /\ stats = EmptyStats
  /\ result = None
  /\ shared = FALSE
  /\ IdleFormatter

Init == InitAnalyze(Documents(BlockLines, MaxLines))

InitBrackets == InitAnalyze(Documents(BracketLines, MaxBracketLines))

InitNotices == InitAnalyze(Documents(NoticeLines, MaxNoticeLines))

\* a loop that leaves the last line out
AfterLineSkipsLast(ls, n, again, after) ==
  IF n + 1 < Len(ls) THEN again ELSE after

\* pc after line n of ls has been dealt with
AfterLine(ls, n, again, after) == IF n < Len(ls) THEN again ELSE after

\* a reset that empties the lists in place
ResetSharedKept(sh) == sh

\* _reset: self.issues = [] and self.stats = {...} bind the attributes to new
\* objects, so a dictionary returned before no longer shares them
ResetShared(sh) == FALSE

\* analyze: _reset, the bracket pre-check and splitlines
Analyze ==
  /\ pc = "analyze"
  /\ tag_stack' = <<>>
  /\ issues' = CheckBrackets(content)
  /\ stats' = EmptyStats
  /\ lines' = Splitlines(content)
  /\ line_num' = 1
  /\ kind_idx' = 1
  /\ pc' = AfterLine(Splitlines(content), 0, "blocks", "unclosed")
  /\ shared' = ResetShared(shared)
  /\ UNCHANGED <<content, result>>
  /\ UNCHANGED formatterVars

\* The first kind at or after position from whose opening or closing pattern
\* matches the line; Len(BLOCKS) + 1 when there is none.  The iterations of
\* the loop of _check_blocks in between change nothing.
RECURSIVE NextKind(_, _)
NextKind(line, from) ==
  IF from > Len(BLOCKS) THEN from
  ELSE IF OpenPattern(BLOCKS[from], line) \/ ClosePattern(BLOCKS[from], line)
  THEN from
  ELSE NextKind(line, from + 1)

\* _check_blocks: the loop, up to and including the next kind found on the line
CheckBlocksLoop ==
  /\ pc = "blocks"
  /\ NextKind(lines[line_num], kind_idx) <= Len(BLOCKS)
  /\ LET k == NextKind(lines[line_num], kind_idx)
         r == CheckBlock(tag_stack, issues, stats, BLOCKS[k],
                         lines[line_num], line_num)
     IN  /\ tag_stack' = r.tag_stack
         /\ issues' = r.issues
         /\ stats' = r.stats
         /\ kind_idx' = k + 1
  /\ UNCHANGED <<content, lines, pc, line_num, result>>
  /\ UNCHANGED <<formatterVars, shared>>

\* _check_blocks: after the loop, else/elif placement and deprecated syntax
CheckBlocksTail ==
  /\ pc = "blocks"
  /\ NextKind(lines[line_num], kind_idx) > Len(BLOCKS)
  /\ issues' = issues \o ElseElifIssues(lines[line_num], line_num, tag_stack)
                      \o DeprecatedIssues(lines[line_num], line_num)
  /\ pc' = "line_rest"
  /\ UNCHANGED <<content, lines, line_num, kind_idx, tag_stack, stats, result>>
  /\ UNCHANGED <<formatterVars, shared>>

\* _analyze_line after _check_blocks: _extract_variables, _check_security,
\* _check_inheritance; then the next line
AnalyzeLineRest ==
  /\ pc = "line_rest"
  /\ stats' = CheckInheritance(ExtractVariables(stats, lines[line_num]),
                               lines[line_num])
  /\ issues' = issues \o SecurityIssues(lines[line_num], line_num)
  /\ line_num' = line_num + 1
  /\ kind_idx' = 1
  /\ pc' = AfterLine(lines, line_num, "blocks", "unclosed")
  /\ UNCHANGED <<content, lines, tag_stack, result>>
  /\ UNCHANGED <<formatterVars, shared>>

CheckUnclosedTags ==
  /\ pc = "unclosed"
  /\ issues' = issues \o UnclosedIssues(tag_stack)
  /\ pc' = "structure"
  /\ UNCHANGED <<content, lines, line_num, kind_idx, tag_stack, stats, result>>
  /\ UNCHANGED <<formatterVars, shared>>

CheckTemplateStructure ==
  /\ pc = "structure"
  /\ issues' = issues \o TemplateStructureIssues(stats)
  /\ pc' = "return"
  /\ UNCHANGED <<content, lines, line_num, kind_idx, tag_stack, stats, result>>
  /\ UNCHANGED <<formatterVars, shared>>

\* analyze: the returned dictionary
AnalyzeReturn ==
  /\ pc = "return"
  /\ result' = [issues |-> issues, statistics |-> stats,
                is_valid |-> IsValid(issues)]
  /\ pc' = "done"
  /\ shared' = TRUE
  /\ calls' = calls + 1
  /\ UNCHANGED <<content, lines, line_num, kind_idx, tag_stack, issues, stats>>
  /\ UNCHANGED <<indent_char, indent_level, formatted_lines, output,
                 first_output, config>>

Next ==
  \/ Analyze
  \/ CheckBlocksLoop
  \/ CheckBlocksTail
  \/ AnalyzeLineRest
  \/ CheckUnclosedTags
  \/ CheckTemplateStructure
  \/ AnalyzeReturn

Spec == Init /\ [][Next]_vars

SpecBrackets == InitBrackets /\ [][Next]_vars

SpecNotices == InitNotices /\ [][Next]_vars

\* NunjucksFormatter(tab_size, use_tabs), and a text about to be formatted
InitFormatter(docs, configs) ==
  /\ content \in docs
  /\ config \in configs
  /\ indent_char = IndentChar(config[1], config[2])
  /\ pc = "format"
  /\ shared = FALSE
  /\ lines = <<>>
  /\ line_num = 0
  /\ kind_idx = 1
  /\ tag_stack = <<>>
  /\ issues = <<>>
  /\ stats = EmptyStats
  /\ result = None
  /\ indent_level = 0
  /\ formatted_lines = <<>>
  /\ output = <<>>
  /\ first_output = <<>>
  /\ calls = 0

\* the text may end with a line break
InitFormat ==
  InitFormatter({IF nl THEN Append(d, NL) ELSE d :
                   d \in Documents(FormatLines, MaxFormatLines),
                   nl \in BOOLEAN},
                FormatConfigs)

\* The text handed to the running format call: the document, then the
\* output of the call before.
FormatInput == IF calls = 0 THEN content ELSE output

\* format: splitlines and the initial indent_level
Format ==
  /\ pc = "format"
  /\ lines' = Splitlines(FormatInput)
  /\ formatted_lines' = <<>>
  /\ indent_level' = 0
  /\ line_num' = 1
  /\ pc' = AfterLine(Splitlines(FormatInput), 0, "format_line", "join")
  /\ UNCHANGED <<content, kind_idx, tag_stack, issues, stats, result,
                 indent_char, output, first_output, calls, config, shared>>

\* format: one iteration of the loop over the lines
FormatLine ==
  /\ pc = "format_line"
  /\ formatted_lines' =
       Append(formatted_lines,
              FormattedLine(indent_char, indent_level, lines[line_num]))
  /\ indent_level' = NextIndentLevel(indent_level, lines[line_num])
  /\ line_num' = line_num + 1
  /\ pc' = AfterLine(lines, line_num, "format_line", "join")
  /\ UNCHANGED <<content, lines, kind_idx, tag_stack, issues, stats, result,
                 indent_char, output, first_output, calls, config, shared>>

\* format: return '\n'.join(formatted_lines)
FormatReturn ==
  /\ pc = "join"
  /\ output' = JoinLines(formatted_lines)
  /\ first_output' = output
  /\ calls' = calls + 1
  /\ pc' = "formatted"
  /\ UNCHANGED <<content, lines, line_num, kind_idx, tag_stack, issues, stats,
                 result, indent_char, indent_level, formatted_lines,
                 config, shared>>

\* the caller formats the text it got back once more
FormatAgain ==
  /\ pc = "formatted"
  /\ calls < MaxCalls
  /\ pc' = "format"
  /\ UNCHANGED <<content, lines, line_num, kind_idx, tag_stack, issues, stats,
                 result, indent_char, indent_level, formatted_lines, output,
                 first_output, calls, config, shared>>

NextFormat ==
  \/ Format
  \/ FormatLine
  \/ FormatReturn
  \/ FormatAgain

SpecFormat == InitFormat /\ [][NextFormat]_vars

\* ----------------------------------------------- what the claims speak of
\* The block tags of a text in the order they stand in it: <<"open", kind>>,
\* <<"close", kind>> and <<"else", "else">>.
TagEvent(w) ==
  IF w \in SeqRange(BLOCKS) THEN << <<"open", w>> >>
  ELSE IF \E k \in SeqRange(BLOCKS) : EndTag(k) = w
  THEN << <<"close", CHOOSE k \in SeqRange(BLOCKS) : EndTag(k) = w>> >>
  ELSE IF w \in temp_dedent_tags THEN << <<"else", "else">> >>
  ELSE <<>>

RECURSIVE TagEventsFrom(_, _)
TagEventsFrom(text, i) ==
  IF i > Len(text) THEN <<>>
  ELSE (IF text[i] = "{%" THEN TagEvent(At(text, SkipWs(text, i + 1)))
        ELSE <<>>) \o TagEventsFrom(text, i + 1)

TagEvents(text) == TagEventsFrom(text, 1)

\* Every opened kind has exactly one matching close, blocks are correctly
\* nested, and an else stands directly inside an if or a for.
RECURSIVE Nested(_, _)
Nested(ev, open) ==
  IF ev = <<>> THEN open = <<>>
  ELSE IF Head(ev)[1] = "open"
  THEN Nested(Tail(ev), Append(open, Head(ev)[2]))
  ELSE IF Head(ev)[1] = "close"
  THEN /\ open # <<>>
       /\ open[Len(open)] = Head(ev)[2]
       /\ Nested(Tail(ev), SubSeq(open, 1, Len(open) - 1))
  ELSE /\ open # <<>>
       /\ open[Len(open)] \in {"if", "for"}
       /\ Nested(Tail(ev), open)

WellFormed(text) ==
  /\ Nested(TagEvents(text), <<>>)
  /\ \A b \in 1..Len(BRACKETS) :
       Count(text, BRACKETS[b][2]) = Count(text, BRACKETS[b][3])

\* The depth of open blocks never goes below zero along the text.
RECURSIVE DepthNeverNegative(_, _)
DepthNeverNegative(ev, depth) ==
  IF ev = <<>> THEN TRUE
  ELSE IF Head(ev)[1] = "open" THEN DepthNeverNegative(Tail(ev), depth + 1)
  ELSE IF Head(ev)[1] = "close"
  THEN depth > 0 /\ DepthNeverNegative(Tail(ev), depth - 1)
  ELSE DepthNeverNegative(Tail(ev), depth)

WellNested(text) == DepthNeverNegative(TagEvents(text), 0)

Errors(iss) == SelectSeq(iss, LAMBDA x : x.severity = "error")

OfType(iss, t) == SelectSeq(iss, LAMBDA x : x.issue_type = t)

\* The issues a step appends.
Appended == SubSeq(issues', Len(issues) + 1, Len(issues'))

\* A step of the loop of _check_blocks, and the kind it deals with.
BlockStep == pc = "blocks" /\ kind_idx' > kind_idx

StepKind == BLOCKS[kind_idx' - 1]

Top(stack) == stack[Len(stack)]

Pop(stack) == SubSeq(stack, 1, Len(stack) - 1)

\* ------------------------------------------------------------------ claims
\* C1: for every well-formed document analyze returns no issue of severity
\* 'error', wherever the tags sit on their lines.
C1_WellFormedNoError ==
  (pc = "done" /\ WellFormed(content)) => Errors(result.issues) = <<>>

\* C2: a line holding the opening and the matching closing tag of one kind
\* (and no tag of another kind) leaves the tag stack at the depth it had and
\* adds no issue.
OneLineBlock(line) ==
  /\ \E k \in SeqRange(BLOCKS) : OpenPattern(k, line) /\ ClosePattern(k, line)
  /\ \A k \in SeqRange(BLOCKS) :
       (OpenPattern(k, line) \/ ClosePattern(k, line))
         => (OpenPattern(k, line) /\ ClosePattern(k, line))
  /\ Cardinality({k \in SeqRange(BLOCKS) : OpenPattern(k, line)}) = 1

C2_OneLineBlockNetZero ==
  [][(pc = "blocks" /\ kind_idx = 1 /\ OneLineBlock(lines[line_num]))
       => (Len(tag_stack') = Len(tag_stack) /\ issues' = issues)]_vars

\* C3: the tag stack changes only by a push of <<kind, line>> for an opening
\* tag the loop recognised, or by a pop of its top entry for a closing tag of
\* the top entry's kind; a closing tag evaluated against an empty stack or a
\* top entry of another kind appends an error and leaves the stack as it was.
StackAtClose ==
  IF OpenPattern(StepKind, lines[line_num])
  THEN Append(tag_stack, <<StepKind, line_num>>)
  ELSE tag_stack

CloseMismatch ==
  /\ BlockStep
  /\ ClosePattern(StepKind, lines[line_num])
  /\ (StackAtClose = <<>> \/ Top(StackAtClose)[1] # StepKind)

C3_StackDiscipline ==
  [][/\ \/ tag_stack' = tag_stack
        \/ /\ BlockStep
           /\ OpenPattern(StepKind, lines[line_num])
           /\ tag_stack' = Append(tag_stack, <<StepKind, line_num>>)
        \/ /\ BlockStep
           /\ ClosePattern(StepKind, lines[line_num])
           /\ tag_stack # <<>>
           /\ Top(tag_stack)[1] = StepKind
           /\ tag_stack' = Pop(tag_stack)
     /\ CloseMismatch =>
          /\ tag_stack' = tag_stack
          /\ Len(issues') = Len(issues) + 1
          /\ issues'[Len(issues')].severity = "error"]_vars

C3_Witness ==
  /\ pc = "blocks"
  /\ tag_stack # <<>>
  /\ OfType(issues, "block_mismatch") # <<>>
  /\ \E i \in 1..Len(tag_stack) :
       tag_stack[i][2] < OfType(issues, "block_mismatch")[1].line

\* C4: a closing tag of kind k evaluated while the stack is empty or its top
\* entry is of another kind appends exactly one error of category
\* block_mismatch that names end{k}, at the line of that closing tag; for the
\* document for / body / endfor / endfor it is the only error and is at line 4.
ForBodyEndforEndfor == JoinLines(<<ForLine, BodyLine, EndforLine, EndforLine>>)

C4_MismatchStep ==
  CloseMismatch =>
    Appended = <<NunjucksIssue(line_num, "error",
                   <<"Unmatched closing tag: ", EndTag(StepKind)>>,
                   "block_mismatch")>>

C4_Example ==
  (pc = "done" /\ content = ForBodyEndforEndfor) =>
    /\ Len(Errors(result.issues)) = 1
    /\ Errors(result.issues)[1].issue_type = "block_mismatch"
    /\ Errors(result.issues)[1].message[2] = "endfor"
    /\ Errors(result.issues)[1].line = 4

C4_StrayClose == [][C4_MismatchStep]_vars /\ []C4_Example

C4_Witness ==
  /\ pc = "done"
  /\ content = ForBodyEndforEndfor
  /\ OfType(result.issues, "block_mismatch") # <<>>

\* C5: after the last line there is exactly one unclosed_tag error for each
\* entry left on the stack, in stack order, at the line the entry was pushed
\* at, and none when the stack is empty; the document if / body has exactly
\* one error, of category unclosed_tag, at line 1.
IfBody == JoinLines(<<IfLine, BodyLine>>)

C5_Unclosed ==
  /\ pc \in {"structure", "return", "done"} =>
       LET u == OfType(issues, "unclosed_tag") IN
         /\ Len(u) = Len(tag_stack)
         /\ \A i \in 1..Len(u) :
              /\ u[i].line = tag_stack[i][2]
              /\ u[i].severity = "error"
              /\ u[i].message = <<"Unclosed ", tag_stack[i][1], " tag">>
  /\ pc \in {"analyze", "blocks", "line_rest", "unclosed"} =>
       OfType(issues, "unclosed_tag") = <<>>
  /\ (pc = "done" /\ content = IfBody) =>
       /\ Len(Errors(result.issues)) = 1
       /\ Errors(result.issues)[1].issue_type = "unclosed_tag"
       /\ Errors(result.issues)[1].line = 1

C5_Witness ==
  /\ pc = "done"
  /\ Len(tag_stack) >= 2
  /\ tag_stack[1][2] # tag_stack[2][2]
  /\ Len(OfType(result.issues, "unclosed_tag")) = Len(tag_stack)

\* C6: for each delimiter family on its own, the result holds exactly one
\* bracket_mismatch error, at line 0, when the text's numbers of opening and
\* of closing delimiters of the family differ, and none when they are equal.
FamilyIssues(iss, b) ==
  SelectSeq(OfType(iss, "bracket_mismatch"),
            LAMBDA x : x.message[2] = BRACKETS[b][1])

C6_BracketFamilies ==
  pc = "done" =>
    \A b \in 1..Len(BRACKETS) :
      LET f == FamilyIssues(result.issues, b) IN
        /\ Len(f) = IF Count(content, BRACKETS[b][2]) #
                       Count(content, BRACKETS[b][3]) THEN 1 ELSE 0
        /\ \A i \in 1..Len(f) : f[i].line = 0 /\ f[i].severity = "error"

C6_Witness ==
  /\ pc = "done"
  /\ Count(content, "{{") = 1 /\ Count(content, "}}") = 1
  /\ Count(content, "{%") = 0 /\ Count(content, "%}") = 1
  /\ Count(content, "{#") = 1 /\ Count(content, "#}") = 0
  /\ Len(OfType(result.issues, "bracket_mismatch")) = 2

\* C7 as stated: a text without any opening delimiter is valid and has no
\* issue.
NoOpening(text) == \A b \in 1..Len(BRACKETS) : Count(text, BRACKETS[b][2]) = 0

NoClosing(text) == \A b \in 1..Len(BRACKETS) : Count(text, BRACKETS[b][3]) = 0

C7_NoOpeningValid ==
  (pc = "done" /\ NoOpening(content)) =>
    (result.is_valid /\ result.issues = <<>>)

\* C7 as amended: a text without any opening and without any closing
\* delimiter is valid and has no issue.
C7_NoDelimiterValid ==
  (pc = "done" /\ NoOpening(content) /\ NoClosing(content)) =>
    (result.is_valid /\ result.issues = <<>>)

C7_Witness ==
  /\ pc = "done"
  /\ NoOpening(content) /\ NoClosing(content)
  /\ Len(lines) >= 2
  /\ result.is_valid

\* C8: is_valid is true exactly when the returned issues hold no error;
\* warnings and info notices leave it true.
C8_ValidIffNoError ==
  pc = "done" =>
    (result.is_valid <=>
       \A i \in 1..Len(result.issues) : result.issues[i].severity # "error")

C8_Witness ==
  /\ pc = "done"
  /\ result.is_valid
  /\ OfType(result.issues, "deprecated") # <<>>
  /\ OfType(result.issues, "security") # <<>>
  /\ OfType(result.issues, "template_structure") # <<>>

\* C9: on a line that matches an else/elif/elseif tag the error 'else/elif
\* outside of if/for block' is appended, at that line, exactly when the stack
\* is empty or its top entry is neither an if nor a for; the document
\* if / else / endif gets no such error.
ElseError(ln) ==
  NunjucksIssue(ln, "error", <<"else/elif outside of if/for block">>, "syntax")

IfElseEndif == JoinLines(<<IfLine, ElseLine, EndifLine>>)

C9_ElseStep ==
  (pc = "blocks" /\ pc' = "line_rest" /\ ELSE_ELIF(lines[line_num])) =>
    ((\E i \in 1..Len(Appended) : Appended[i] = ElseError(line_num))
       <=> (tag_stack = <<>> \/ Top(tag_stack)[1] \notin {"if", "for"}))

C9_Example ==
  (pc = "done" /\ content = IfElseEndif) =>
    \A i \in 1..Len(result.issues) :
      result.issues[i].message # <<"else/elif outside of if/for block">>

C9_ElsePlacement == [][C9_ElseStep]_vars /\ []C9_Example

C9_Witness ==
  /\ pc = "line_rest"
  /\ ELSE_ELIF(lines[line_num])
  /\ tag_stack # <<>>
  /\ Top(tag_stack)[1] = "block"
  /\ issues # <<>>
  /\ issues[Len(issues)] = ElseError(line_num)

\* C10: format is idempotent on every well-nested document: formatting the
\* output of format gives that output again.
C10_Idempotent ==
  (pc = "formatted" /\ calls = MaxCalls /\ WellNested(content)) =>
    output = first_output

\* C11: on a well-formed document every non-blank line is rendered with the
\* indent unit repeated d times, d the number of blocks open around the line;
\* the opening line, the else lines and the closing line of a block stand at
\* the depth of the opening line.  if / body / endif with two spaces indents
\* the body by two spaces and nothing else.
RECURSIVE Depth(_, _)
Depth(ev, depth) ==
  IF ev = <<>> THEN depth
  ELSE IF Head(ev)[1] = "open" THEN Depth(Tail(ev), depth + 1)
  ELSE IF Head(ev)[1] = "close" THEN Depth(Tail(ev), depth - 1)
  ELSE Depth(Tail(ev), depth)

\* Blocks open around line n of ls, an opening line counted outside its block.
BlocksAround(ls, n) ==
  LET before == Depth(TagEvents(JoinLines(SubSeq(ls, 1, n - 1))), 0)
      ev == TagEvents(ls[n])
  IN  IF ev # <<>> /\ Head(ev)[1] \in {"close", "else"} THEN before - 1
      ELSE before

IfTextEndif == JoinLines(<<IfLine, <<"text">>, EndifLine>>)

C11_IndentIsDepth ==
  (pc = "formatted" /\ calls = 1 /\ WellFormed(content)) =>
    /\ Len(formatted_lines) = Len(lines)
    /\ \A n \in 1..Len(lines) :
         Strip(lines[n]) # <<>> =>
           formatted_lines[n] =
             Repeat(indent_char, BlocksAround(lines, n)) \o Strip(lines[n])
    /\ (content = IfTextEndif /\ indent_char = <<" ", " ">>) =>
         output = JoinLines(<<IfLine, <<" ", " ", "text">>, EndifLine>>)

\* C12: in format a line holding the opening tag of a kind and the end tag of
\* the same kind leaves indent_level as it was.
C12_OneLineBlockKeepsLevel ==
  [][(pc = "format_line" /\ OneLineBlock(Strip(lines[line_num])))
       => indent_level' = indent_level]_vars

\* ------------------------------------------------- formatter configuration
MaxConfigLines == 2

ConfigLines == {IfLine, <<"text">>, EndifLine}

\* tab_size and use_tabs as a caller may give them; __init__ takes any integer
ConfigInputs == {<<2, FALSE>>, <<0, FALSE>>, <<-1, FALSE>>, <<-1, TRUE>>}

InitConfig ==
  InitFormatter(Documents(ConfigLines, MaxConfigLines), ConfigInputs)

SpecConfig == InitConfig /\ [][NextFormat]_vars

Malformed(c) == c[1] < 0

\* C13: a formatter constructed with a malformed configuration (a negative
\* tab size) has format fail before any line is processed: the call never
\* gets to its loop over the lines, to the join or to a returned text.
C13_RejectsMalformed ==
  Malformed(config) => pc \notin {"format_line", "join", "formatted"}

\* ------------------------------------------------ any text, either call
MaxTotalLines == 2

\* lines of texts that are not templates: lone delimiters, a tag that never
\* ends, closing and else tags without an opening
TotalLines ==
  {<<"{{">>, <<"%}">>, <<"{%", " ", "if", " ", "x">>, <<>>, IfLine, ElseLine,
   EndifLine}

InitTotal ==
  \/ InitAnalyze(Documents(TotalLines, MaxTotalLines))
  \/ InitFormatter(Documents(TotalLines, MaxTotalLines), {<<2, FALSE>>})

NextTotal == Next \/ NextFormat

\* a call that has started keeps running: nothing in analyze or format waits
SpecTotal == InitTotal /\ [][NextTotal]_vars /\ WF_vars(NextTotal)

\* the text the call that returned last was given
LastInput ==
  IF pc = "formatted" /\ calls > 1 THEN first_output ELSE content

\* C14: whatever the text, analyze and format come to an end and return; the
\* line number starts at 1 and only ever moves to the next line, format has
\* appended one line for each line passed, and at the end every line of the
\* text has been passed.
C14_Total ==
  /\ (pc = "analyze") ~> (pc = "done" /\ result.is_valid \in BOOLEAN)
  /\ (pc = "format") ~> (pc = "formatted")
  /\ [][line_num' # line_num =>
          line_num' = IF pc \in {"analyze", "format"} THEN 1
                      ELSE line_num + 1]_vars
  /\ [](pc \in {"format_line", "join", "formatted"} =>
          Len(formatted_lines) = line_num - 1)
  /\ [](pc \in {"done", "formatted"} =>
          /\ lines = Splitlines(LastInput)
          /\ line_num = Len(lines) + 1)

C14_Witness ==
  /\ pc = "done"
  /\ Len(lines) >= 2
  /\ line_num = Len(lines) + 1
  /\ Len(Errors(issues)) >= 2

\* ------------------------------------------------- one analyzer, many texts
MaxReuseLines == 2

ReuseLines ==
  {IfLine, EndifLine, BlockLine, <<"{{", " ", "user", ".", "name", " ", "}}">>}

InitReuse == InitAnalyze(Documents(ReuseLines, MaxReuseLines))

\* the caller hands the same analyzer another text
AnalyzeAgain ==
  /\ pc = "done"
  /\ calls < MaxCalls
  /\ content' \in Documents(ReuseLines, MaxReuseLines)
  /\ pc' = "analyze"
  /\ UNCHANGED <<lines, line_num, kind_idx, tag_stack, issues, stats, result>>
  /\ UNCHANGED <<formatterVars, shared>>

NextReuse == Next \/ AnalyzeAgain

SpecReuse == InitReuse /\ [][NextReuse]_vars

\* _check_blocks on one line, from kind k on
RECURSIVE BlocksFrom(_, _, _, _)
BlocksFrom(st, line, ln, k) ==
  IF NextKind(line, k) > Len(BLOCKS) THEN st
  ELSE BlocksFrom(CheckBlock(st.tag_stack, st.issues, st.stats,
                             BLOCKS[NextKind(line, k)], line, ln),
                  line, ln, NextKind(line, k) + 1)

\* _analyze_line
AnalyzeLine(st, line, ln) ==
  LET b == BlocksFrom(st, line, ln, 1)
  IN  [tag_stack |-> b.tag_stack,
       issues |-> b.issues \o ElseElifIssues(line, ln, b.tag_stack)
                           \o DeprecatedIssues(line, ln)
                           \o SecurityIssues(line, ln),
       stats |-> CheckInheritance(ExtractVariables(b.stats, line), line)]

RECURSIVE AnalyzeLines(_, _, _)
AnalyzeLines(st, ls, n) ==
  IF n > Len(ls) THEN st
  ELSE AnalyzeLines(AnalyzeLine(st, ls[n], n), ls, n + 1)

\* analyze on an analyzer that has just been constructed
FreshResult(text) ==
  LET st == AnalyzeLines([tag_stack |-> <<>>, issues |-> CheckBrackets(text),
                          stats |-> EmptyStats],
                         Splitlines(text), 1)
      iss == st.issues \o UnclosedIssues(st.tag_stack)
                       \o TemplateStructureIssues(st.stats)
  IN  [issues |-> iss, statistics |-> st.stats, is_valid |-> IsValid(iss)]

\* C15: what analyze returns depends on the text alone: a call on an analyzer
\* that has analyzed other texts returns what a new analyzer returns; and the
\* issues and statistics of a returned dictionary stay as they were returned,
\* whatever the analyzer does afterwards.
C15_FunctionOfInput ==
  /\ pc = "done" => result = FreshResult(content)
  /\ shared => (result.issues = issues /\ result.statistics = stats)

\* a later call at work on a clean text while the dictionary returned before
\* still holds its issues
C15_Witness ==
  /\ calls = 1
  /\ pc = "unclosed"
  /\ ~shared
  /\ result.issues # <<>>
  /\ issues = <<>>
  /\ tag_stack = <<>>

\* ------------------------------------------------------ security warnings
MaxSecurityLines == 2

UserNameLine == <<"{{", " ", "user", ".", "name", " ", "}}">>

UserNameEscapedLine ==
  <<"{{", " ", "user", ".", "name", " ", "|", " ", "escape", " ", "}}">>

ScriptVarLine == <<"<script>">> \o Var1("x")

ScriptVarSafeLine ==
  <<"<script>">> \o Var1("x")
                \o <<"{{", " ", "y", " ", "|", " ", "safe", " ", "}}">>

SecurityLines ==
  {UserNameLine, UserNameEscapedLine, ScriptVarLine, ScriptVarSafeLine,
   Var1("form"), Var1("x"),
   <<"<script>">> \o UserNameLine,
   <<"<script>">> \o Var1("input"),
   UserNameLine \o <<"{{", " ", "query", ".", "x", " ", "}}">>,
   <<"<script>", "text">>,
   IfLine \o UserNameLine}

InitSecurity == InitAnalyze(Documents(SecurityLines, MaxSecurityLines))

SpecSecurity == InitSecurity /\ [][Next]_vars

\* the warnings of one line with a given message
WarningsAt(iss, n, msg) ==
  SelectSeq(iss, LAMBDA x : /\ x.line = n
                            /\ x.severity = "warning"
                            /\ x.issue_type = "security"
                            /\ x.message = msg)

UserInputMessage == <<"User input should be escaped for security">>

ScriptMessage ==
  <<"Unescaped variable in JavaScript context. Use |tojson filter.">>

\* C16: a line with an expression that starts like user input gets exactly
\* one user-input warning, at its line number, when no escape, e or safe
\* filter is on the line, and none when one is; no other line gets one.
\* {{ user.name }} is warned of, {{ user.name | escape }} is not.
C16_UserInputWarning ==
  pc = "done" =>
    /\ \A n \in 1..Len(lines) :
         Len(WarningsAt(result.issues, n, UserInputMessage)) =
           IF UserInput(lines[n]) /\ ~EscapeFilter(lines[n]) THEN 1 ELSE 0
    /\ content = UserNameLine =>
         Len(WarningsAt(result.issues, 1, UserInputMessage)) = 1
    /\ content = UserNameEscapedLine => result.issues = <<>>

C16_Witness ==
  /\ pc = "done"
  /\ lines = <<UserNameLine, UserNameEscapedLine>>
  /\ Len(result.issues) = 1
  /\ result.issues[1].line = 1
  /\ result.issues[1].message = UserInputMessage

\* C17: a line gets the script-context warning exactly when it holds a
\* <script ...> opening tag and a bare {{ name }} and no escape, e or safe
\* filter anywhere on the line; it then gets it once, at its line number.
C17_ScriptContextWarning ==
  pc = "done" =>
    \A n \in 1..Len(lines) :
      Len(WarningsAt(result.issues, n, ScriptMessage)) =
        IF /\ ScriptContext(lines[n])
           /\ UnescapedVar(lines[n])
           /\ ~EscapeFilter(lines[n])
        THEN 1 ELSE 0

C17_Witness ==
  /\ pc = "done"
  /\ lines = <<ScriptVarLine, ScriptVarSafeLine>>
  /\ Len(result.issues) = 1
  /\ result.issues[1].line = 1
  /\ result.issues[1].message = ScriptMessage

\* ----------------------------------------------------- blocks and extends
MaxStructureLines == 3

ExtendsQuotedLine ==
  <<"{%", " ", "extends", " ", "'", "base.html", "'", " ", "%}">>

\* extends of a template held in a variable
ExtendsVariableLine == <<"{%", " ", "extends", " ", "x", " ", "%}">>

StructureLines ==
  {BlockLine, EndblockLine, ExtendsQuotedLine, ExtendsVariableLine,
   <<"text">>, EndifLine}

InitStructure == InitAnalyze(Documents(StructureLines, MaxStructureLines))

SpecStructure == InitStructure /\ [][Next]_vars

\* the line holds an extends tag, whatever it names
ExtendsTag(line) ==
  \E i \in 1..Len(line) :
    line[i] = "{%" /\ At(line, SkipWs(line, i + 1)) = "extends"

\* the line holds an extends tag that names its template in quotes
QuotedExtendsTag(line) == QuotedArg(line, "extends") # {}

\* the notices of the result are right when extends stands for the lines
\* that count as an extends tag
StructureNotice(extends(_)) ==
  LET notices == OfType(result.issues, "template_structure")
  IN  /\ Len(notices) =
           IF /\ result.statistics.blocks_defined # {}
              /\ \A n \in 1..Len(lines) : ~extends(lines[n])
           THEN 1 ELSE 0
      /\ \A i \in 1..Len(notices) :
           notices[i].severity = "info" /\ notices[i].line = 0
      /\ result.is_valid =
           (SelectSeq(result.issues,
                      LAMBDA x : x.issue_type # "template_structure"
                                 /\ x.severity = "error") = <<>>)

\* C18: the result has one info issue of type template_structure, at line 0,
\* exactly when a block name was recorded and no line of the document holds
\* an extends tag, before or after the blocks; otherwise it has none; and
\* is_valid is what it is without the notice.
C18_NoticeIffNoExtendsTag == pc = "done" => StructureNotice(ExtendsTag)

\* C18, amended: the same, with an extends tag that names its template in
\* quotes; an extends tag naming a variable is not recorded and leaves the
\* notice in place.
C18_NoticeIffNoQuotedExtends == pc = "done" => StructureNotice(QuotedExtendsTag)

\* blocks, then a quoted extends after them: no notice
C18_Witness ==
  /\ pc = "done"
  /\ lines = <<BlockLine, EndblockLine, ExtendsQuotedLine>>
  /\ result.statistics.blocks_defined # {}
  /\ result.issues = <<>>

\* ------------------------------------------- the formatter's view of tags
MaxTagLines == 3

RawTightLine == <<"{%", "raw", "%}">>

EndrawTightLine == <<"{%", "endraw", "%}">>

NamedEndblockLine == Tag2("endblock", "body")

TagLines ==
  {BlockLine, EndblockLine, NamedEndblockLine, Tag1("raw"), Tag1("endraw"),
   RawTightLine, EndrawTightLine, <<"text">>}

InitTags ==
  InitFormatter(Documents(TagLines, MaxTagLines), {<<2, FALSE>>})

SpecTags == InitTags /\ [][NextFormat]_vars

OneTagPerLine(ls) == \A n \in 1..Len(ls) : Count(ls[n], "{%") <= 1

\* the depth of the analyzer's tag stack after the first n lines
StackDepthAfter(ls, n) ==
  Len(AnalyzeLines([tag_stack |-> <<>>, issues |-> <<>>,
                    stats |-> EmptyStats],
                   SubSeq(ls, 1, n), 1).tag_stack)

\* C19: the formatter takes for an opening and a closing tag what the
\* analyzer takes for one, for each of the 14 kinds: on a well-nested document
\* with at most one tag on a line, indent_level after each line is the depth
\* of the analyzer's tag stack after that line.
C19_LevelIsStackDepth ==
  (/\ pc \in {"format_line", "join"}
   /\ calls = 0
   /\ WellFormed(content)
   /\ OneTagPerLine(lines)) =>
    indent_level = StackDepthAfter(lines, line_num - 1)

\* ------------------------------------------- whitespace around the lines
MaxWhitespaceLines == 2

WhitespaceLines ==
  {<<"text">>, <<" ", "text">>, <<"text", " ">>, <<"\t", "text", "\t">>,
   <<>>, <<" ">>, IfLine, <<" ">> \o EndifLine}

InitWhitespace ==
  InitFormatter({IF nl THEN Append(d, NL) ELSE d :
                   d \in Documents(WhitespaceLines, MaxWhitespaceLines),
                   nl \in BOOLEAN},
                {<<2, FALSE>>})

SpecWhitespace == InitWhitespace /\ [][NextFormat]_vars

\* C20: the text format returns has one line for each line of the text it
\* was given, in the same order, and each of its lines without its leading
\* whitespace is the line it was given without its leading whitespace.
C20_OnlyLeadingWhitespace ==
  (pc = "formatted" /\ calls = 1) =>
    /\ Len(Splitlines(output)) = Len(Splitlines(content))
    /\ \A n \in 1..Len(Splitlines(content)) :
         n <= Len(Splitlines(output)) =>
           LStrip(Splitlines(output)[n]) = LStrip(Splitlines(content)[n])

\* ----------------------------------------------------------- line breaks
MaxSeparatorLines == 2

SeparatorLines == {<<"text">>, IfLine, EndifLine, <<>>}

RECURSIVE Concat(_)
Concat(ss) == IF ss = <<>> THEN <<>> ELSE Head(ss) \o Concat(Tail(ss))

\* The texts of at most n lines over ls, each line followed by a line break
\* of either kind, the last line with or without one.
SeparatedDocuments(ls, n) ==
  LET ended ==
        {Concat([i \in 1..m |-> d[i] \o <<b[i]>>]) :
           m \in 0..n, d \in [1..n -> ls], b \in [1..n -> LineBreaks]}
  IN  ended \cup {SubSeq(t, 1, Len(t) - 1) : t \in ended \ {<<>>}}

InitSeparators ==
  InitFormatter(SeparatedDocuments(SeparatorLines, MaxSeparatorLines),
                {<<2, FALSE>>})

SpecSeparators == InitSeparators /\ [][NextFormat]_vars

\* the line breaks of a text, in order
LineBreaksOf(text) == SelectSeq(text, LAMBDA t : t \in LineBreaks)

\* C21: the text format returns is its processed lines joined in order, and
\* it has the line breaks of the text it was given: as many, of the same
\* kind, a final line break included.
C21_SameLineBreaks ==
  (pc = "formatted" /\ calls = 1) =>
    /\ Len(formatted_lines) = Len(lines)
    /\ LineBreaksOf(output) = LineBreaksOf(content)

\* ------------------------------------------------ the steps of format
\* a step of the loop of format, and the trimmed line it deals with
FormatStep == pc = "format_line"

Stripped == Strip(lines[line_num])

\* the indent units put before the line the step renders
RenderedUnits(units) ==
  formatted_lines' = Append(formatted_lines,
                            Repeat(indent_char, units) \o Stripped)

\* C22: indent_level is a natural number in every state of a format run; a
\* line with a closing tag lowers it by one, but not below 0; a line with a
\* closing tag or an else tag is rendered with max(0, indent_level - 1)
\* indent units, any other non-blank line with indent_level units.
C22_LevelNeverNegative ==
  /\ [](indent_level \in Nat)
  /\ [][(FormatStep /\ PermDedent(Stripped)) =>
          indent_level' = Max(0, indent_level - 1)]_vars
  /\ [][(FormatStep /\ Stripped # <<>>) =>
          IF TempDedent(Stripped) \/ PermDedent(Stripped)
          THEN RenderedUnits(Max(0, indent_level - 1))
          ELSE RenderedUnits(indent_level)]_vars

\* a closing tag met at level 0 has left the level at 0
C22_Witness ==
  /\ pc = "format_line"
  /\ calls = 0
  /\ line_num = 2
  /\ lines[1] = EndifLine
  /\ indent_level = 0
  /\ formatted_lines = <<EndifLine>>

\* ----------------------------------------------------------- else lines
MaxElseLines == 3

ElifLine == Tag2("elif", "x")

\* an else tag and the opening tag of a new block on one line
ElseThenIfLine == ElseLine \o IfLine

ElseLines ==
  {IfLine, ElseLine, ElifLine, EndifLine, <<"text">>, <<>>, ElseThenIfLine}

InitElse ==
  InitFormatter(Documents(ElseLines, MaxElseLines), {<<2, FALSE>>})

SpecElse == InitElse /\ [][NextFormat]_vars

\* indent units in front of line k of the returned text
Units(k) ==
  (Len(formatted_lines[k]) - Len(Strip(lines[k]))) \div Len(indent_char)

\* line m is the first non-blank line after line n
FirstNonBlankAfter(n, m) ==
  /\ m > n
  /\ m <= Len(lines)
  /\ Strip(lines[m]) # <<>>
  /\ \A k \in (n + 1)..(m - 1) : Strip(lines[k]) = <<>>

\* a line with an else tag; with lone, one that has no other tag
ElseTagLine(s, lone) == TempDedent(s) /\ (lone => Count(s, "{%") = 1)

\* the step over an else line: rendered one level up, level kept
ElseStep(lone) ==
  (FormatStep /\ ElseTagLine(Stripped, lone)) =>
    /\ indent_level' = indent_level
    /\ RenderedUnits(Max(0, indent_level - 1))

\* the first non-blank line after an else line is rendered from the level
\* that held before the else line
AfterElse(lone) ==
  pc = "formatted" =>
    \A n, m \in 1..Len(lines) :
      (/\ ElseTagLine(Strip(lines[n]), lone)
       /\ FirstNonBlankAfter(n, m)
       /\ Units(n) >= 1) =>
        Units(m) = IF TempDedent(Strip(lines[m]))
                      \/ PermDedent(Strip(lines[m]))
                   THEN Units(n) ELSE Units(n) + 1

\* C23: a line with an else, elif or elseif tag is rendered one level
\* shallower than indent_level and leaves indent_level as it was: the first
\* non-blank line after it is rendered from the level that held before it.
C23_ElseKeepsLevel == [][ElseStep(FALSE)]_vars /\ []AfterElse(FALSE)

\* C23, amended: the same of a line whose only tag is the else, elif or
\* elseif tag.
C23_LoneElseKeepsLevel == [][ElseStep(TRUE)]_vars /\ []AfterElse(TRUE)

\* if, else, text: the else line at no indent, the text one unit in
C23_Witness ==
  /\ pc = "formatted"
  /\ calls = 1
  /\ lines = <<IfLine, ElseLine, <<"text">>>>
  /\ formatted_lines = <<IfLine, ElseLine, indent_char \o <<"text">>>>

\* C24: a line that is empty once trimmed is appended as the empty line and
\* leaves indent_level as it was, at whatever level it is met.
C24_BlankLine ==
  [][(FormatStep /\ Stripped = <<>>) =>
       /\ formatted_lines' = Append(formatted_lines, <<>>)
       /\ indent_level' = indent_level]_vars

\* a line of blanks met at level 1
C24_Witness ==
  /\ pc = "format_line"
  /\ calls = 0
  /\ line_num = 3
  /\ lines[1] = IfLine
  /\ lines[2] = <<" ">>
  /\ indent_level = 1
  /\ formatted_lines = <<IfLine, <<>>>>

\* ------------------------------------------------------------ named endif
MaxNamedLines == 3

NamedEndifLine == Tag2("endif", "name")

NamedLines == {IfLine, NamedEndifLine, EndifLine, <<"text">>}

InitNamed == InitAnalyze(Documents(NamedLines, MaxNamedLines))

SpecNamed == InitNamed /\ [][Next]_vars

\* a line whose one tag is a named endif
LoneNamedEndif(line) == NamedEndif(line) /\ Count(line, "{%") = 1

IssuesAt(iss, n, t) ==
  SelectSeq(iss, LAMBDA x : x.line = n /\ x.issue_type = t)

\* C25: a named endif line gets one warning of type deprecated at its line
\* and is no closing tag: the tag stack is after the line what it was before
\* and no block error is reported at the line; an if followed only by a
\* named endif is on the stack at the end and reported as 'Unclosed if tag'.
C25_NamedEndif ==
  /\ [][(pc \in {"blocks", "line_rest"} /\ LoneNamedEndif(lines[line_num]))
          => tag_stack' = tag_stack]_vars
  /\ [](pc = "done" =>
          \A n \in 1..Len(lines) :
            /\ Len(IssuesAt(result.issues, n, "deprecated")) =
                 (IF NamedEndif(lines[n]) THEN 1 ELSE 0)
            /\ \A i \in 1..Len(IssuesAt(result.issues, n, "deprecated")) :
                 IssuesAt(result.issues, n, "deprecated")[i].severity
                   = "warning"
            /\ LoneNamedEndif(lines[n]) =>
                 IssuesAt(result.issues, n, "block_mismatch") = <<>>)
  /\ []((pc = "done" /\ lines = <<IfLine, NamedEndifLine>>) =>
          /\ tag_stack = << <<"if", 1>> >>
          /\ result.issues[Len(result.issues)] =
               NunjucksIssue(1, "error", <<"Unclosed ", "if", " tag">>,
                             "unclosed_tag")
          /\ ~result.is_valid)

C25_Witness ==
  /\ pc = "done"
  /\ lines = <<IfLine, NamedEndifLine>>
  /\ Len(result.issues) = 2
  /\ result.issues[1].issue_type = "deprecated"
  /\ result.issues[1].line = 2
  /\ result.issues[2].issue_type = "unclosed_tag"

\* ------------------------------------------------ several kinds on a line
MaxOrderLines == 2

ForThenIfLine == ForLine \o IfLine

EndforThenEndifLine == EndforLine \o EndifLine

OrderLines ==
  {ForThenIfLine, EndforThenEndifLine, IfLine \o IfLine, IfLine, EndifLine,
   EndforLine}

InitOrder == InitAnalyze(Documents(OrderLines, MaxOrderLines))

SpecOrder == InitOrder /\ [][Next]_vars

\* the place of a kind in the order the claim gives
KindPlace(k) ==
  CHOOSE i \in 1..14 :
    <<"if", "for", "block", "macro", "call", "filter", "with", "without",
      "autoescape", "raw", "verbatim", "asynceach", "asyncall",
      "while">>[i] = k

\* the kind a block_mismatch error names
MismatchKind(x) ==
  CHOOSE k \in SeqRange(BLOCKS) :
    x.message = <<"Unmatched closing tag: ", EndTag(k)>>

\* C26: the kinds found on one line are handled in the order if, for, block,
\* ... while, whatever their order on the line, and each kind once: the
\* entries one line pushes lie on the stack in that order, no kind twice, and
\* the errors of the closing tags of one line are reported in that order.
C26_RegistryOrder ==
  /\ \A i, j \in 1..Len(tag_stack) :
       (i < j /\ tag_stack[i][2] = tag_stack[j][2]) =>
         KindPlace(tag_stack[i][1]) < KindPlace(tag_stack[j][1])
  /\ LET mm == OfType(issues, "block_mismatch") IN
       \A i, j \in 1..Len(mm) :
         (i < j /\ mm[i].line = mm[j].line) =>
           KindPlace(MismatchKind(mm[i])) < KindPlace(MismatchKind(mm[j]))
  /\ (pc = "done" /\ lines = <<ForThenIfLine>>) =>
       tag_stack = << <<"if", 1>>, <<"for", 1>> >>
  /\ (pc = "done" /\ lines = <<IfLine \o IfLine>>) =>
       tag_stack = << <<"if", 1>> >>

\* for and if opened on line 1 in that order, endfor and endif on line 2:
\* if went on the stack first, so endif meets for on top and is an error
C26_Witness ==
  /\ pc = "done"
  /\ lines = <<ForThenIfLine, EndforThenEndifLine>>
  /\ tag_stack = << <<"if", 1>> >>
  /\ Len(OfType(result.issues, "block_mismatch")) = 1
  /\ OfType(result.issues, "block_mismatch")[1].message
       = <<"Unmatched closing tag: ", "endif">>

\* ------------------------------------------------- the order of the issues
MaxPhaseLines == 3

PhaseLines ==
  {IfLine, ForLine, EndifLine, BlockLine,
   <<"{{", " ", "user", ".", "name">>,
   <<"{{", " ", "user", ".", "name", " ", "}}">>}

InitPhases == InitAnalyze(Documents(PhaseLines, MaxPhaseLines))

SpecPhases == InitPhases /\ [][Next]_vars

\* the phase of analyze an issue comes from
Phase(x) ==
  CASE x.issue_type = "bracket_mismatch" -> 1
    [] x.issue_type \in {"block_mismatch", "syntax", "deprecated",
                         "security"} -> 2
    [] x.issue_type = "unclosed_tag" -> 3
    [] x.issue_type = "template_structure" -> 4

\* C27: the returned issues stand in the order of the phases: the
\* bracket_mismatch errors (line 0), the issues of the line scan by
\* non-decreasing line, the unclosed_tag errors in the order of the stack from
\* the bottom up (non-decreasing opening line), and last the
\* template_structure notice if there is one.
C27_PhaseOrder ==
  pc = "done" =>
    LET iss == result.issues
        unclosed == OfType(iss, "unclosed_tag")
    IN  /\ \A i, j \in 1..Len(iss) :
             i < j =>
               /\ Phase(iss[i]) <= Phase(iss[j])
               /\ (Phase(iss[i]) = Phase(iss[j]) /\ Phase(iss[i]) \in {2, 3})
                    => iss[i].line <= iss[j].line
        /\ \A i \in 1..Len(iss) : Phase(iss[i]) \in {1, 4} => iss[i].line = 0
        /\ Len(unclosed) = Len(tag_stack)
        /\ \A i \in 1..Len(unclosed) :
             /\ unclosed[i].line = tag_stack[i][2]
             /\ unclosed[i].message = <<"Unclosed ", tag_stack[i][1], " tag">>
        /\ Len(OfType(iss, "template_structure")) <= 1

\* one issue of each phase, in order
C27_Witness ==
  /\ pc = "done"
  /\ Len(result.issues) >= 5
  /\ result.issues[1].issue_type = "bracket_mismatch"
  /\ \E i \in 1..Len(result.issues) : Phase(result.issues[i]) = 2
  /\ Len(OfType(result.issues, "unclosed_tag")) = 2
  /\ OfType(result.issues, "unclosed_tag")[1].line
       < OfType(result.issues, "unclosed_tag")[2].line
  /\ result.issues[Len(result.issues)].issue_type = "template_structure"

\* ------------------------------------------------- format as a function
\* the loop of format over the lines ls, entered at the given level
RECURSIVE FormatFrom(_, _, _)
FormatFrom(unit, ls, level) ==
  IF ls = <<>> THEN <<>>
  ELSE <<FormattedLine(unit, level, Head(ls))>>
       \o FormatFrom(unit, Tail(ls), NextIndentLevel(level, Head(ls)))

\* format(text) of a formatter with the given indent unit
FormatText(unit, text) == JoinLines(FormatFrom(unit, Splitlines(text), 0))

\* the lines of the text, each trimmed at both ends
TrimmedLines(text) ==
  [n \in 1..Len(Splitlines(text)) |-> Strip(Splitlines(text)[n])]

\* C28: what format returns depends on the trimmed lines alone: it is what
\* the loop of format makes of the trimmed lines of the text under the same
\* configuration, so two texts whose lines agree after trimming give the
\* same text.
C28_TrimmedLinesOnly ==
  (pc = "formatted" /\ calls = 1) =>
    /\ output = FormatText(indent_char, content)
    /\ output = JoinLines(FormatFrom(indent_char, TrimmedLines(content), 0))

\* a text with blanks around its lines, returned as its trimmed text is
C28_Witness ==
  /\ pc = "formatted"
  /\ calls = 1
  /\ content = JoinLines(<<IfLine, <<"\t", "text", "\t">>>>)
  /\ output = JoinLines(<<IfLine, indent_char \o <<"text">>>>)
  /\ output = FormatText(indent_char, JoinLines(<<IfLine, <<"text">>>>))

\* ------------------------------ NunjucksFormatCommand.format_template
\* content.split('\n'): the pieces between line feeds, the piece after the
\* last one included; the texts drawn for the command hold no other line
\* boundary.
RECURSIVE SplitNLFrom(_, _)
SplitNLFrom(s, cur) ==
  IF s = <<>> THEN <<cur>>
  ELSE IF Head(s) = NL THEN <<cur>> \o SplitNLFrom(Tail(s), <<>>)
  ELSE SplitNLFrom(Tail(s), Append(cur, Head(s)))

SplitNL(s) == SplitNLFrom(s, <<>>)

\* indent_char = '    '
TemplateIndentChar == <<" ", " ", " ", " ">>

\* increase_indent_tags, in list order
increase_indent_tags == BLOCKS

\* the else tags at the end of decrease_indent_tags
template_else_tags == {"else", "elif", "elseif"}

decrease_indent_tags == dedent_tags \cup template_else_tags

\* re.search(r'{%\s*' + w + r'\b', s): a word token ends at a word boundary
TagThenBoundary(s, w) ==
  \E i \in 1..Len(s) : s[i] = "{%" /\ At(s, SkipWs(s, i + 1)) = w

ShouldDecrease(s) == \E tag \in decrease_indent_tags : TagThenBoundary(s, tag)

\* max(0, indent_level - 1) if should_decrease else indent_level
TemplateCurrentIndent(level, s) ==
  IF ShouldDecrease(s) THEN Max(0, level - 1) ELSE level

\* the level after the 'Update indent level' statement
TemplateDecreased(level, s) ==
  IF ShouldDecrease(s)
     /\ ~ \E tag \in template_else_tags : TagThenBoundary(s, tag)
  THEN Max(0, level - 1) ELSE level

\* the loop over increase_indent_tags from position k: the first tag found
\* decides, and counts unless its end tag is on the line
RECURSIVE TemplateIncreased(_, _, _)
TemplateIncreased(level, s, k) ==
  IF k > Len(increase_indent_tags) THEN level
  ELSE IF TagThenBoundary(s, increase_indent_tags[k])
  THEN (IF TagThenClose(s, EndTag(increase_indent_tags[k])) THEN level
        ELSE level + 1)
  ELSE TemplateIncreased(level, s, k + 1)

\* indent_level after the line
TemplateNextLevel(level, line) ==
  IF Strip(line) = <<>> THEN level
  ELSE TemplateIncreased(TemplateDecreased(level, Strip(line)),
                         Strip(line), 1)

\* the line as appended to formatted_lines
TemplateFormattedLine(level, line) ==
  IF Strip(line) = <<>> THEN <<>>
  ELSE Repeat(TemplateIndentChar, TemplateCurrentIndent(level, Strip(line)))
       \o Strip(line)

\* format_template: split and the initial indent_level
FormatTemplate ==
  /\ pc = "template"
  /\ lines' = SplitNL(content)
  /\ formatted_lines' = <<>>
  /\ indent_level' = 0
  /\ indent_char' = TemplateIndentChar
  /\ line_num' = 1
  /\ pc' = "template_line"
  /\ UNCHANGED <<content, kind_idx, tag_stack, issues, stats, result,
                 output, first_output, calls, config, shared>>

\* format_template: one iteration of the loop over the lines
FormatTemplateLine ==
  /\ pc = "template_line"
  /\ formatted_lines' =
       Append(formatted_lines,
              TemplateFormattedLine(indent_level, lines[line_num]))
  /\ indent_level' = TemplateNextLevel(indent_level, lines[line_num])
  /\ line_num' = line_num + 1
  /\ pc' = AfterLine(lines, line_num, "template_line", "template_join")
  /\ UNCHANGED <<content, lines, kind_idx, tag_stack, issues, stats, result,
                 indent_char, output, first_output, calls, config, shared>>

\* format_template: return '\n'.join(formatted_lines)
FormatTemplateReturn ==
  /\ pc = "template_join"
  /\ output' = JoinLines(formatted_lines)
  /\ calls' = calls + 1
  /\ pc' = "template_done"
  /\ UNCHANGED <<content, lines, line_num, kind_idx, tag_stack, issues, stats,
                 result, indent_char, indent_level, formatted_lines,
                 first_output, config, shared>>

NextTemplate ==
  \/ FormatTemplate
  \/ FormatTemplateLine
  \/ FormatTemplateReturn

MaxTemplateLines == 3

TemplateLines ==
  {IfLine, ElseLine, EndifLine, <<"text">>, <<>>, Tag1("raw"), Tag1("endraw"),
   RawTightLine, EndrawTightLine}

\* a command of the package about to work on the text of the view
InitCommand(docs, start) ==
  /\ content \in docs
  /\ pc = start
  /\ lines = <<>>
  /\ line_num = 0
  /\ kind_idx = 1
  /\ tag_stack = <<>>
  /\ issues = <<>>
  /\ stats = EmptyStats
  /\ result = None
  /\ shared = FALSE
  /\ IdleFormatter

InitTemplate ==
  InitCommand(Documents(TemplateLines, MaxTemplateLines), "template")

SpecTemplate == InitTemplate /\ [][NextTemplate]_vars

\* indent_level of NunjucksFormatter.format after the lines ls
RECURSIVE LevelAfter(_, _)
LevelAfter(ls, level) ==
  IF ls = <<>> THEN level
  ELSE LevelAfter(Tail(ls), NextIndentLevel(level, Head(ls)))

\* the documents the claim speaks of: every tag name is followed by a blank
\* or the closing delimiter, and no end tag is followed by a name
TagsDelimited(line) ==
  \A i \in 1..Len(line) :
    line[i] = "{%" =>
      At(line, SkipWs(line, i + 1) + 1) \in WS \cup {"%}"}

EndTagNamed(line) ==
  \E i \in 1..Len(line) :
    /\ line[i] = "{%"
    /\ At(line, SkipWs(line, i + 1)) \in dedent_tags
    /\ IsWord(At(line, SkipWs(line, SkipWs(line, i + 1) + 1)))

PlainTags(ls) ==
  /\ OneTagPerLine(ls)
  /\ \A n \in 1..Len(ls) : TagsDelimited(ls[n]) /\ ~EndTagNamed(ls[n])

\* C29: on a document with at most one tag on a line, tag names followed by
\* a blank or the closing delimiter and no named end tag, format_template
\* renders every line with the number of indent units that
\* NunjucksFormatter.format gives it, and has after every line the
\* indent_level that format has.
C29_SameLevels ==
  (pc \in {"template_line", "template_join", "template_done"}
   /\ PlainTags(lines)) =>
    /\ indent_level = LevelAfter(SubSeq(lines, 1, line_num - 1), 0)
    /\ \A n \in 1..Len(formatted_lines) :
         Strip(lines[n]) # <<>> =>
           Units(n) = CurrentIndent(LevelAfter(SubSeq(lines, 1, n - 1), 0),
                                    Strip(lines[n]))

\* ---------------------------------- NunjucksLintCommand.lint_template
\* an entry of the list lint_template returns
LintIssue(ln, type, message) ==
  [line |-> ln, type |-> type, message |-> message]

\* the loop over tag_patterns from kind k: every kind found is pushed
RECURSIVE LintOpened(_, _, _, _)
LintOpened(stack, line, ln, k) ==
  IF k > Len(BLOCKS) THEN stack
  ELSE LintOpened(IF TagThenBoundary(line, BLOCKS[k])
                  THEN Append(stack, <<BLOCKS[k], ln>>) ELSE stack,
                  line, ln, k + 1)

\* the loop over end_patterns from kind k: every end tag found pops the top
\* entry when it is of its kind, and is reported otherwise
RECURSIVE LintClosed(_, _, _, _)
LintClosed(st, line, ln, k) ==
  IF k > Len(BLOCKS) THEN st
  ELSE LintClosed(
         IF ~TagThenBoundary(line, EndTag(BLOCKS[k])) THEN st
         ELSE IF st.tag_stack # <<>>
                 /\ st.tag_stack[Len(st.tag_stack)][1] = BLOCKS[k]
         THEN [st EXCEPT !.tag_stack = SubSeq(@, 1, Len(@) - 1)]
         ELSE [st EXCEPT !.issues =
                 Append(@, LintIssue(ln, "error",
                           <<"Unmatched end tag: ", EndTag(BLOCKS[k])>>))],
         line, ln, k + 1)

\* the three user_input_patterns, in list order
LintUserInput(line) ==
  << \E i \in 1..Len(line) :
        /\ line[i] = "{{"
        /\ At(line, SkipWs(line, i + 1))
             \in {"user", "request", "params", "query"}
        /\ At(line, SkipWs(line, i + 1) + 1) = ".",
     \E i \in 1..Len(line) :
        line[i] = "{{" /\ At(line, SkipWs(line, i + 1)) = "input",
     \E i \in 1..Len(line) :
        line[i] = "{{" /\ At(line, SkipWs(line, i + 1)) = "form" >>

\* check_common_mistakes
LintCommonMistakes(line, ln) ==
  (IF ScriptContext(line) /\ UnescapedVar(line)
   THEN <<LintIssue(ln, "warning",
            <<"Unescaped variable in JavaScript context. ",
              "Consider using |tojson filter.">>)>>
   ELSE <<>>)
  \o
  Concat([k \in 1..Len(LintUserInput(line)) |->
            IF LintUserInput(line)[k] /\ ~EscapeFilter(line)
            THEN <<LintIssue(ln, "warning",
                     <<"User input should be escaped. ",
                       "Consider adding |escape filter.">>)>>
            ELSE <<>>])
  \o
  (IF NamedEndif(line)
   THEN <<LintIssue(ln, "warning",
            <<"Named endif is deprecated. Use {% endif %} instead.">>)>>
   ELSE <<>>)

\* the entries the loop over the open tags appends at the end
RECURSIVE LintUnclosed(_)
LintUnclosed(stack) ==
  IF stack = <<>> THEN <<>>
  ELSE <<LintIssue(Head(stack)[2], "error",
           <<"Unclosed tag: ", Head(stack)[1]>>)>>
       \o LintUnclosed(Tail(stack))

\* lint_template: split and the empty lists
Lint ==
  /\ pc = "lint"
  /\ lines' = SplitNL(content)
  /\ issues' = <<>>
  /\ tag_stack' = <<>>
  /\ line_num' = 1
  /\ pc' = "lint_line"
  /\ UNCHANGED <<content, kind_idx, stats, result, shared>>
  /\ UNCHANGED formatterVars

\* lint_template: one iteration of the loop over the lines
LintLine ==
  /\ pc = "lint_line"
  /\ LET st == LintClosed([tag_stack |->
                              LintOpened(tag_stack, lines[line_num],
                                         line_num, 1),
                            issues |-> issues],
                           lines[line_num], line_num, 1)
     IN  /\ tag_stack' = st.tag_stack
         /\ issues' = st.issues
                       \o LintCommonMistakes(lines[line_num], line_num)
  /\ line_num' = line_num + 1
  /\ pc' = AfterLine(lines, line_num, "lint_line", "lint_unclosed")
  /\ UNCHANGED <<content, lines, kind_idx, stats, result, shared>>
  /\ UNCHANGED formatterVars

\* lint_template: the unclosed tags, and the return
LintReturn ==
  /\ pc = "lint_unclosed"
  /\ issues' = issues \o LintUnclosed(tag_stack)
  /\ pc' = "lint_done"
  /\ UNCHANGED <<content, lines, line_num, kind_idx, tag_stack, stats,
                 result, shared>>
  /\ UNCHANGED formatterVars

NextLint ==
  \/ Lint
  \/ LintLine
  \/ LintReturn

MaxLintLines == 3

\* an endif that trims the whitespace after it
EndifTrimLine == <<"{%", " ", "endif", " ", "-", "%}">>

LintLines ==
  {IfLine, EndifLine, ForLine, EndforLine, <<"text">>, EndifTrimLine,
   <<"{{", " ", "user", ".", "name", " ", "}}">>}

InitLint == InitCommand(Documents(LintLines, MaxLintLines), "lint")

SpecLint == InitLint /\ [][NextLint]_vars

\* the block tags of a line, by the word that follows the opening delimiter
BlockTagCount(line) == Len(SelectSeq(TagEvents(line),
                                     LAMBDA e : e[1] \in {"open", "close"}))

\* the documents the claim speaks of
OneBlockTagPerLine(ls) ==
  \A n \in 1..Len(ls) : BlockTagCount(ls[n]) <= 1 /\ ~EndTagNamed(ls[n])

\* the analyzer's state after the first n lines
AnalyzedUpTo(ls, n) ==
  AnalyzeLines([tag_stack |-> <<>>, issues |-> <<>>, stats |-> EmptyStats],
               SubSeq(ls, 1, n), 1)

\* line and wording of the errors whose message starts with the given words
ErrorsSaying(iss, words) ==
  LET sel == SelectSeq(iss, LAMBDA x : x.message[1] = words)
  IN  [i \in 1..Len(sel) |-> <<sel[i].line, sel[i].message[2]>>]

\* C30: on a document with at most one block tag on a line and no named end
\* tag, lint_template has after every line the tag stack analyze has, its
\* 'Unmatched end tag' errors are analyze's block_mismatch errors, kind by
\* kind and line by line, and its 'Unclosed tag' errors are analyze's
\* unclosed_tag errors.
C30_LintAgreesWithAnalyze ==
  (pc \in {"lint_line", "lint_unclosed", "lint_done"}
   /\ OneBlockTagPerLine(lines)) =>
    /\ tag_stack = AnalyzedUpTo(lines, line_num - 1).tag_stack
    /\ pc = "lint_done" =>
         /\ ErrorsSaying(issues, "Unmatched end tag: ")
              = ErrorsSaying(FreshResult(content).issues,
                             "Unmatched closing tag: ")
         /\ Len(ErrorsSaying(issues, "Unclosed tag: "))
              = Len(OfType(FreshResult(content).issues, "unclosed_tag"))
====
